---- MODULE Spec2Model ----
(***************************************************************************)
(* A model of the homework bot's polling loop (src/homework.py).           *)
(*                                                                         *)
(* Python values are tagged records: an integer n is [t |-> "int", v |-> n]*)
(* and None is [t |-> "NoneType", v |-> 0].  A string is a TLA+ string and *)
(* an f-string is the sequence of its pieces, so that two texts are equal  *)
(* exactly when the Python strings are.  The module's strings are ASCII:   *)
(* the Cyrillic literals of the source are written in Latin letters and    *)
(* start with "ru:".                                                       *)
(***************************************************************************)
EXTENDS Integers, Sequences, FiniteSets, TLC

VARIABLES
    env,             \* os.getenv of the three tokens (lines 18-20)
    pc,              \* where main() is
    exit_code,       \* the process's exit status, Running while it runs
    clock,           \* wall-clock time, in seconds
    timestamp,       \* main's local `timestamp`: the poll cursor
    last_error,      \* main's local `last_error`
    practicum_resp,  \* main's local `practicum_resp`
    error,           \* the exception bound by `except Exception as error`
    raised,          \* the exception that is propagating out of main, if any
    cycle,           \* how many loop iterations have started
    fetches,         \* how many times requests.get was called
    sleeps,          \* how many time.sleep(RETRY_PERIOD) calls have returned
    cur,             \* what the current loop iteration has done so far
    prev             \* what the iteration before it did

vars == <<env, pc, exit_code, clock, timestamp, last_error, practicum_resp,
          error, raised, cycle, fetches, sleeps, cur, prev>>

----------------------------------------------------------------------------
(* Bounds of the model *)

MaxCycles == 3

MaxHomeworks == 2

MaxObjects == 3

(* Program constants *)

RETRY_PERIOD == 600

EX_DATAERR == 65

UNCAUGHT_EXIT == 1

HTTP_OK == 200

StartTime == 1700000000

Running == -1

----------------------------------------------------------------------------
(* Python values *)

PyNone == [t |-> "NoneType", v |-> 0]

PyInt(n) == [t |-> "int", v |-> n]

Missing == "<missing>"

Unset == "<unset>"

TokenNames == <<"PRACTICUM_TOKEN", "TELEGRAM_TOKEN", "TELEGRAM_CHAT_ID">>

TokenValues == {Unset, "", "secret"}

Falsy(v) == v \in {Unset, ""}

(* mutant: the verdicts of approved and rejected are exchanged *)
HOMEWORK_VERDICTS_Exchanged ==
    [approved  |-> "ru:Rabota proverena: u revyuera est zamechaniya.",
     reviewing |-> "ru:Rabota vzyata na proverku revyuerom.",
     rejected  |-> "ru:Rabota proverena: revyueru vsyo ponravilos. Ura!"]

HOMEWORK_VERDICTS ==
    [approved  |-> "ru:Rabota proverena: revyueru vsyo ponravilos. Ura!",
     reviewing |-> "ru:Rabota vzyata na proverku revyuerom.",
     rejected  |-> "ru:Rabota proverena: u revyuera est zamechaniya."]

(* Exceptions: the class, the text of str(args[0]) and the object's identity *)
NoError == [kind |-> "None", msg |-> <<>>, id |-> 0]

ObjIds == 1 .. MaxObjects

Min(S) == CHOOSE x \in S : \A y \in S : x <= y

(* A new object is none of the objects still referenced. *)
NewId(live) == Min(ObjIds \ live)

Exc(kind, msg, live) == [kind |-> kind, msg |-> msg, id |-> NewId(live)]

(* str(error): KeyError prints the repr of its argument *)
Str(e) == IF e.kind = "KeyError" THEN <<"'">> \o e.msg \o <<"'">> ELSE e.msg

----------------------------------------------------------------------------
(* The inputs: what the homework API and the bot client can answer *)

Homework(status, name) == [pytype |-> "dict", status |-> status, homework_name |-> name]

(* check_response's None, as a value parse_status receives *)
NoHomework == [pytype |-> "NoneType", status |-> Missing, homework_name |-> Missing]

(* an element of `homeworks` that is a JSON string, not an object *)
StrHomework == [pytype |-> "str", status |-> Missing, homework_name |-> Missing]

HomeworkValues ==
    { Homework(s, "proj1") : s \in {"approved", "reviewing", "rejected", "paused", Missing} }
    \cup { Homework("approved", Missing), Homework("paused", Missing), StrHomework }

(* the submissions that may follow the newest one in the list *)
OlderValues == { Homework("rejected", "proj0"), StrHomework }

(* the lists of at most MaxHomeworks elements: anything first, then older ones *)
HomeworkLists ==
    { <<>> } \cup UNION { { <<h>> \o t : h \in HomeworkValues, t \in [1 .. n -> OlderValues] } :
                          n \in 0 .. MaxHomeworks - 1 }

(* the value under the key `homeworks`: absent, JSON null, or an array *)
HomeworksField ==
    { [t |-> Missing, items |-> <<>>], [t |-> "NoneType", items |-> <<>>] }
    \cup { [t |-> "list", items |-> l] : l \in HomeworkLists }

DateValues == { StartTime - 100, StartTime + 100 }

(* the value under the key `current_date`: absent or an integer *)
DateField == { [t |-> Missing, v |-> 0] } \cup { PyInt(d) : d \in DateValues }

(* a decoded JSON body: an object, or something else (here the array []) *)
Responses ==
    { [pytype |-> "list", homeworks |-> [t |-> Missing, items |-> <<>>],
       current_date |-> [t |-> Missing, v |-> 0]] }
    \cup { [pytype |-> "dict", homeworks |-> h, current_date |-> d] :
             h \in HomeworksField, d \in DateField }

Unbound == [pytype |-> "<unbound>", homeworks |-> [t |-> Missing, items |-> <<>>],
            current_date |-> [t |-> Missing, v |-> 0]]

(* what requests.get and response.json() can do in one call *)
FetchOutcomes ==
    { [net |-> "down", status |-> 0, json |-> FALSE, body |-> Unbound] }
    \cup { [net |-> "up", status |-> 503, json |-> FALSE, body |-> Unbound] }
    \cup { [net |-> "up", status |-> HTTP_OK, json |-> FALSE, body |-> Unbound] }
    \cup { [net |-> "up", status |-> HTTP_OK, json |-> TRUE, body |-> r] : r \in Responses }

(* what bot.send_message can do: deliver, or raise a TelegramError *)
BotOutcomes == { "ok", "Timed out" }

----------------------------------------------------------------------------
(* repr() of the values the error messages interpolate *)

ReprKeys(present) ==
    IF present = <<>> THEN "dict_keys([])"
    ELSE IF present = <<"homeworks">> THEN "dict_keys(['homeworks'])"
    ELSE IF present = <<"current_date">> THEN "dict_keys(['current_date'])"
    ELSE IF present = <<"status">> THEN "dict_keys(['status'])"
    ELSE IF present = <<"homework_name">> THEN "dict_keys(['homework_name'])"
    ELSE IF present = <<"status", "homework_name">>
         THEN "dict_keys(['status', 'homework_name'])"
    ELSE "dict_keys(['homeworks', 'current_date'])"

ResponseKeys(response) ==
    (IF response.homeworks.t = Missing THEN <<>> ELSE <<"homeworks">>)
    \o (IF response.current_date.t = Missing THEN <<>> ELSE <<"current_date">>)

HomeworkKeys(homework) ==
    (IF homework.status = Missing THEN <<>> ELSE <<"status">>)
    \o (IF homework.homework_name = Missing THEN <<>> ELSE <<"homework_name">>)

(* dict.get(key) of a string-valued key: None when the key is absent *)
GetStr(value) == IF value = Missing THEN "None" ELSE value

(* response.get('current_date') *)
GetDate(response) ==
    IF response.current_date.t = Missing THEN PyNone ELSE response.current_date

----------------------------------------------------------------------------
(* The functions of src/homework.py.  A call either returns or raises:     *)
(* [raised, kind, msg] and the value it returned.                          *)

Return(field, value) ==
    [raised |-> FALSE, kind |-> "None", msg |-> <<>>] @@ (field :> value)

Raise(field, dflt, kind, msg) ==
    [raised |-> TRUE, kind |-> kind, msg |-> msg] @@ (field :> dflt)

(* mutant: the chat identifier is not checked *)
check_tokens_WithoutChatId(tokens) ==
    \A i \in 1 .. 2 : ~Falsy(tokens[TokenNames[i]])

check_tokens(tokens) ==
    \A i \in 1 .. Len(TokenNames) : ~Falsy(tokens[TokenNames[i]])

(* the key check_tokens logs as critical: the first one that is missing *)
FirstMissing(tokens) ==
    LET bad == { i \in 1 .. Len(TokenNames) : Falsy(tokens[TokenNames[i]]) }
    IN  IF bad = {} THEN "" ELSE TokenNames[Min(bad)]

get_api_answer(outcome) ==
    IF outcome.net = "down"
    THEN Raise("body", Unbound, "RequestException",
               <<"ru:Oshibka v zaprose k praktikumu. ", "ConnectionError">>)
    ELSE IF outcome.status = HTTP_OK
         THEN IF outcome.json
              THEN Return("body", outcome.body)
              \* the handler on lines 99-101 builds JSONDecodeError(msg) without
              \* its doc and pos arguments; whichever exception results, it is
              \* no RequestException and leaves the function
              ELSE Raise("body", Unbound, "TypeError",
                         <<"__init__() missing 2 required positional arguments: 'doc' and 'pos'">>)
         ELSE Raise("body", Unbound, "PractikumException",
                    <<"ru:Praktikum nedostupen ", "<class 'custom_exceptions.HTTPError'>">>)

(* mutant: the last element of the list is taken for the newest one *)
check_response_Last(response) ==
    IF response.pytype # "dict"
    THEN Raise("homework", NoHomework, "TypeError",
               <<"ru:Ozhidal poluchit slovar, poluchil ", "[]", ".">>)
    ELSE IF response.homeworks.t = Missing
    THEN Raise("homework", NoHomework, "PractikumException",
               <<"ru:Nuzhnykh klyuchey net, tolko eto ", ReprKeys(ResponseKeys(response))>>)
    ELSE IF response.homeworks.t # "list"
    THEN Raise("homework", NoHomework, "TypeError",
               <<"ru:Ozhidal spisok c klyuchom homeworks, poluchil ", "None", ".">>)
    ELSE IF Len(response.homeworks.items) < 1
    THEN Return("homework", NoHomework)
    ELSE Return("homework", response.homeworks.items[Len(response.homeworks.items)])

check_response(response) ==
    IF response.pytype # "dict"
    THEN Raise("homework", NoHomework, "TypeError",
               <<"ru:Ozhidal poluchit slovar, poluchil ", "[]", ".">>)
    ELSE IF response.homeworks.t = Missing
    THEN Raise("homework", NoHomework, "PractikumException",
               <<"ru:Nuzhnykh klyuchey net, tolko eto ", ReprKeys(ResponseKeys(response))>>)
    ELSE IF response.homeworks.t # "list"
    THEN Raise("homework", NoHomework, "TypeError",
               <<"ru:Ozhidal spisok c klyuchom homeworks, poluchil ", "None", ".">>)
    ELSE IF Len(response.homeworks.items) < 1
    THEN Return("homework", NoHomework)
    ELSE Return("homework", response.homeworks.items[1])

(* mutant: the status is not checked; an unknown one formats as None *)
parse_status_NoStatusCheck(homework) ==
    IF homework.pytype # "dict"
    THEN Raise("text", <<>>, "AttributeError",
               <<"'", homework.pytype, "' object has no attribute 'get'">>)
    ELSE IF homework.homework_name = Missing
    THEN Raise("text", <<>>, "KeyError",
               <<"ru:Ne nashel klyuchik \"homework_name\", tolko vot eto ",
                 ReprKeys(HomeworkKeys(homework))>>)
    ELSE Return("text",
                <<"ru:Izmenilsya status proverki raboty \"", homework.homework_name, "\". ",
                  IF homework.status \in DOMAIN HOMEWORK_VERDICTS
                  THEN HOMEWORK_VERDICTS[homework.status] ELSE "None">>)

(* mutant: the name is looked for before the status is checked *)
parse_status_NameFirst(homework) ==
    IF homework.pytype # "dict"
    THEN Raise("text", <<>>, "AttributeError",
               <<"'", homework.pytype, "' object has no attribute 'get'">>)
    ELSE IF homework.homework_name = Missing
    THEN Raise("text", <<>>, "KeyError",
               <<"ru:Ne nashel klyuchik \"homework_name\", tolko vot eto ",
                 ReprKeys(HomeworkKeys(homework))>>)
    ELSE IF homework.status \notin DOMAIN HOMEWORK_VERDICTS
    THEN Raise("text", <<>>, "KeyError",
               <<"ru:Neozhidannyy status ", GetStr(homework.status)>>)
    ELSE Return("text",
                <<"ru:Izmenilsya status proverki raboty \"", homework.homework_name,
                  "\". ", HOMEWORK_VERDICTS[homework.status]>>)

parse_status(homework) ==
    IF homework.pytype # "dict"
    THEN Raise("text", <<>>, "AttributeError",
               <<"'", homework.pytype, "' object has no attribute 'get'">>)
    ELSE IF homework.status \notin DOMAIN HOMEWORK_VERDICTS
    THEN Raise("text", <<>>, "KeyError",
               <<"ru:Neozhidannyy status ", GetStr(homework.status)>>)
    ELSE IF homework.homework_name = Missing
    THEN Raise("text", <<>>, "KeyError",
               <<"ru:Ne nashel klyuchik \"homework_name\", tolko vot eto ",
                 ReprKeys(HomeworkKeys(homework))>>)
    ELSE Return("text",
                <<"ru:Izmenilsya status proverki raboty \"", homework.homework_name,
                  "\". ", HOMEWORK_VERDICTS[homework.status]>>)

(* send_message: the text reaches the bot client; a TelegramError becomes  *)
(* a CustomTelegramError.                                                  *)
send_message(message, outcome) ==
    IF outcome = "ok"
    THEN Return("sent", TRUE)
    ELSE Raise("sent", FALSE, "CustomTelegramError", <<"ru:Oshibka telegram ", outcome>>)


----------------------------------------------------------------------------
(* What the model records about one iteration of `while True` *)

EmptyCycle ==
    [fetch    |-> "none",   \* how get_api_answer ended: ok, down, http, json
     from_date |-> PyNone,  \* the cursor it was called with
     fetched_at |-> 0,      \* the time of that call
     sends    |-> <<>>,     \* the calls of bot.send_message, in order
     caught   |-> NoError,  \* the exception the except clause caught
     advanced |-> FALSE,    \* line 175 has assigned timestamp
     slept    |-> FALSE]    \* line 176 has returned

FetchKind(outcome) ==
    IF outcome.net = "down" THEN "down"
    ELSE IF outcome.status # HTTP_OK THEN "http"
    ELSE IF ~outcome.json THEN "json"
    ELSE "ok"

SendRecord(kind, text, outcome) == [kind |-> kind, text |-> text, ok |-> (outcome = "ok")]

(* the objects still referenced when a new exception is constructed *)
Live == { last_error.id, error.id, raised.id }

----------------------------------------------------------------------------
Init ==
    /\ env \in [ {TokenNames[i] : i \in 1 .. Len(TokenNames)} -> TokenValues ]
    /\ pc = "main"
    /\ exit_code = Running
    /\ clock = StartTime
    /\ timestamp = PyNone
    /\ last_error = NoError
    /\ practicum_resp = Unbound
    /\ error = NoError
    /\ raised = NoError
    /\ cycle = 0
    /\ fetches = 0
    /\ sleeps = 0
    /\ cur = EmptyCycle
    /\ prev = EmptyCycle

(* main, lines 150-157: the token check, then the loop's locals *)
Startup ==
    /\ pc = "main"
    /\ IF check_tokens(env)
       THEN /\ pc' = "get_api_answer"
            /\ timestamp' = PyInt(clock)
            /\ last_error' = NoError
            /\ UNCHANGED exit_code
       ELSE /\ pc' = "exited"
            /\ exit_code' = EX_DATAERR
            /\ UNCHANGED <<timestamp, last_error>>
    /\ UNCHANGED <<env, clock, practicum_resp, error, raised, cycle, fetches,
                   sleeps, cur, prev>>

(* line 160: the call stands before the try statement, so what it raises   *)
(* leaves main                                                             *)
GetApiAnswer(outcome) ==
    /\ pc = "get_api_answer"
    /\ cycle < MaxCycles
    /\ cycle' = cycle + 1
    /\ fetches' = fetches + 1
    /\ LET r == get_api_answer(outcome)
       IN  /\ cur' = [cur EXCEPT !.fetch = FetchKind(outcome), !.from_date = timestamp,
                                      !.fetched_at = clock]
           /\ IF r.raised
              THEN /\ raised' = Exc(r.kind, r.msg, Live)
                   /\ pc' = "crashed"
                   /\ exit_code' = UNCAUGHT_EXIT
                   /\ UNCHANGED practicum_resp
              ELSE /\ practicum_resp' = r.body
                   /\ pc' = "try"
                   /\ UNCHANGED <<raised, exit_code>>
    /\ UNCHANGED <<env, clock, timestamp, last_error, error, sleeps, prev>>

(* mutant: a cycle without an error resets last_error to None *)
TryBody_ClearsError(outcome) ==
    /\ pc = "try"
    /\ LET c == check_response(practicum_resp)
           p == parse_status(c.homework)
           s == send_message(p.text, outcome)
       IN  IF c.raised
           THEN /\ error' = Exc(c.kind, c.msg, Live)
                /\ pc' = "except"
                /\ UNCHANGED cur
           ELSE IF p.raised
           THEN /\ error' = Exc(p.kind, p.msg, Live)
                /\ pc' = "except"
                /\ UNCHANGED cur
           ELSE IF p.text = <<>>
           THEN /\ pc' = "finally"
                /\ UNCHANGED <<error, cur>>
           ELSE /\ cur' = [cur EXCEPT !.sends = Append(@, SendRecord("status", p.text, outcome))]
                /\ IF s.raised
                   THEN /\ error' = Exc(s.kind, s.msg, Live)
                        /\ pc' = "except"
                   ELSE /\ pc' = "finally"
                        /\ UNCHANGED error
    /\ last_error' = IF pc' = "finally" THEN NoError ELSE last_error
    /\ UNCHANGED <<env, exit_code, clock, timestamp, practicum_resp,
                   raised, cycle, fetches, sleeps, prev>>

(* lines 161-165: the try suite *)
TryBody(outcome) ==
    /\ pc = "try"
    /\ LET c == check_response(practicum_resp)
           p == parse_status(c.homework)
           s == send_message(p.text, outcome)
       IN  IF c.raised
           THEN /\ error' = Exc(c.kind, c.msg, Live)
                /\ pc' = "except"
                /\ UNCHANGED cur
           ELSE IF p.raised
           THEN /\ error' = Exc(p.kind, p.msg, Live)
                /\ pc' = "except"
                /\ UNCHANGED cur
           ELSE IF p.text = <<>>
           THEN /\ pc' = "finally"
                /\ UNCHANGED <<error, cur>>
           ELSE /\ cur' = [cur EXCEPT !.sends = Append(@, SendRecord("status", p.text, outcome))]
                /\ IF s.raised
                   THEN /\ error' = Exc(s.kind, s.msg, Live)
                        /\ pc' = "except"
                   ELSE /\ pc' = "finally"
                        /\ UNCHANGED error
    /\ UNCHANGED <<env, exit_code, clock, timestamp, last_error, practicum_resp,
                   raised, cycle, fetches, sleeps, prev>>

(* mutant: the notified error is not stored in last_error *)
ExceptBody_ForgetsError(outcome) ==
    /\ pc = "except"
    /\ LET message == <<"ru:Sboy v rabote programmy: ">> \o Str(error)
           s == send_message(message, outcome)
       IN  IF error.id # last_error.id
           THEN /\ cur' = [cur EXCEPT !.caught = error,
                                      !.sends = Append(@, SendRecord("error", message, outcome))]
                /\ IF s.raised
                   THEN /\ raised' = Exc(s.kind, s.msg, Live)
                        /\ UNCHANGED last_error
                   ELSE /\ UNCHANGED last_error
                        /\ UNCHANGED raised
           ELSE /\ cur' = [cur EXCEPT !.caught = error]
                /\ UNCHANGED <<last_error, raised>>
    /\ error' = NoError
    /\ pc' = "finally"
    /\ UNCHANGED <<env, exit_code, clock, timestamp, practicum_resp, cycle,
                   fetches, sleeps, prev>>

(* lines 167-172: the except clause; `error` is unbound when it ends *)
ExceptBody(outcome) ==
    /\ pc = "except"
    /\ LET message == <<"ru:Sboy v rabote programmy: ">> \o Str(error)
           s == send_message(message, outcome)
       IN  IF error.id # last_error.id
           THEN /\ cur' = [cur EXCEPT !.caught = error,
                                      !.sends = Append(@, SendRecord("error", message, outcome))]
                /\ IF s.raised
                   THEN /\ raised' = Exc(s.kind, s.msg, Live)
                        /\ UNCHANGED last_error
                   ELSE /\ last_error' = error
                        /\ UNCHANGED raised
           ELSE /\ cur' = [cur EXCEPT !.caught = error]
                /\ UNCHANGED <<last_error, raised>>
    /\ error' = NoError
    /\ pc' = "finally"
    /\ UNCHANGED <<env, exit_code, clock, timestamp, practicum_resp, cycle,
                   fetches, sleeps, prev>>

(* mutant: the cursor is advanced and the loop goes round without sleeping *)
FinallyBody_NoSleep ==
    /\ pc = "finally"
    /\ practicum_resp.pytype = "dict"
    /\ raised = NoError
    /\ timestamp' = GetDate(practicum_resp)
    /\ prev' = [cur EXCEPT !.advanced = TRUE]
    /\ cur' = EmptyCycle
    /\ pc' = "get_api_answer"
    /\ UNCHANGED <<env, exit_code, clock, last_error, practicum_resp, error, raised,
                   cycle, fetches, sleeps>>

(* mutant: the cursor is advanced to the local clock, not to current_date *)
FinallyBody_LocalClock ==
    /\ pc = "finally"
    /\ practicum_resp.pytype = "dict"
    /\ timestamp' = PyInt(clock)
    /\ cur' = [cur EXCEPT !.advanced = TRUE]
    /\ pc' = "sleep"
    /\ UNCHANGED <<env, exit_code, clock, last_error, practicum_resp, error, raised,
                   cycle, fetches, sleeps, prev>>

(* line 175 and the call of time.sleep on line 176 *)
FinallyBody ==
    /\ pc = "finally"
    /\ IF practicum_resp.pytype # "dict"
       THEN \* practicum_resp.get raises and replaces what was propagating
            /\ raised' = Exc("AttributeError",
                             <<"'", practicum_resp.pytype, "' object has no attribute 'get'">>,
                             Live)
            /\ pc' = "crashed"
            /\ exit_code' = UNCAUGHT_EXIT
            /\ UNCHANGED <<timestamp, cur>>
       ELSE /\ timestamp' = GetDate(practicum_resp)
            /\ cur' = [cur EXCEPT !.advanced = TRUE]
            /\ pc' = "sleep"
            /\ UNCHANGED <<raised, exit_code>>
    /\ UNCHANGED <<env, clock, last_error, practicum_resp, error, cycle, fetches,
                   sleeps, prev>>

(* time.sleep(RETRY_PERIOD) returns; then the loop goes round, or the      *)
(* exception raised inside the except clause leaves main                   *)
Wake ==
    /\ pc = "sleep"
    /\ clock' = clock + RETRY_PERIOD
    /\ sleeps' = sleeps + 1
    /\ IF raised # NoError
       THEN /\ pc' = "crashed"
            /\ exit_code' = UNCAUGHT_EXIT
            /\ cur' = [cur EXCEPT !.slept = TRUE]
            /\ UNCHANGED prev
       ELSE /\ pc' = "get_api_answer"
            /\ prev' = [cur EXCEPT !.slept = TRUE]
            /\ cur' = EmptyCycle
            /\ UNCHANGED exit_code
    /\ UNCHANGED <<env, timestamp, last_error, practicum_resp, error, raised,
                   cycle, fetches>>

Next ==
    \/ Startup
    \/ \E outcome \in FetchOutcomes : GetApiAnswer(outcome)
    \/ \E outcome \in BotOutcomes : TryBody(outcome)
    \/ \E outcome \in BotOutcomes : ExceptBody(outcome)
    \/ FinallyBody
    \/ Wake

Spec == Init /\ [][Next]_vars


----------------------------------------------------------------------------
(* Observations the properties are stated with *)

ErrorSends(c) == Cardinality({ i \in 1 .. Len(c.sends) : c.sends[i].kind = "error" })

StatusSends(c) == Cardinality({ i \in 1 .. Len(c.sends) : c.sends[i].kind = "status" })

SameError(a, b) == a.kind = b.kind /\ a.msg = b.msg

(* the except clause of the current iteration, if entered, has finished *)
HandlerDone == pc \in {"finally", "sleep", "crashed"}

Terminated == pc \in {"exited", "crashed"}

ValueAbsent(v) == v = Unset \/ v = ""

AnyTokenAbsent ==
    \/ ValueAbsent(env["PRACTICUM_TOKEN"])
    \/ ValueAbsent(env["TELEGRAM_TOKEN"])
    \/ ValueAbsent(env["TELEGRAM_CHAT_ID"])

InLoop == pc \in {"get_api_answer", "try", "except", "finally", "sleep"}

FetchStep == fetches' = fetches + 1

SendStep == Len(cur'.sends) = Len(cur.sends) + 1

----------------------------------------------------------------------------
(* C1: in every poll cycle at most one chat notification is issued: a      *)
(* status-change message or an error message, never both.                  *)
C1_AtMostOneNotificationPerCycle ==
    /\ Len(cur.sends) <= 1
    /\ ~(StatusSends(cur) >= 1 /\ ErrorSends(cur) >= 1)

(* C2: when the response's `homeworks` list is empty the validator returns *)
(* the absence value, the cycle sends nothing and no error is raised or    *)
(* recorded.                                                               *)
C2_EmptyListIsSilent ==
    ( /\ pc \in {"except", "finally", "sleep", "crashed"}
      /\ cur.fetch = "ok"
      /\ practicum_resp.pytype = "dict"
      /\ practicum_resp.homeworks.t = "list"
      /\ practicum_resp.homeworks.items = <<>> )
    => /\ ~check_response(practicum_resp).raised
       /\ check_response(practicum_resp).homework = NoHomework
       /\ cur.sends = <<>>
       /\ error = NoError
       /\ cur.caught = NoError
       /\ raised = NoError

(* C3: of two consecutive cycles that each raise an error, equal errors    *)
(* (same kind, same message) give one error notification across the two    *)
(* cycles and distinct errors give two.                                    *)
C3_DuplicateSuppression ==
    (HandlerDone /\ prev.caught # NoError /\ cur.caught # NoError)
    => ErrorSends(prev) + ErrorSends(cur)
         = (IF SameError(prev.caught, cur.caught) THEN 1 ELSE 2)

(* C4: a failure of the fetch step (transport, HTTP status, JSON) is       *)
(* caught by the loop: the process does not terminate.                     *)
C4_FetchFailureIsCaught ==
    cur.fetch \in {"down", "http", "json"} => ~Terminated

(* C5: a cycle in which the upstream answers with a non-success HTTP       *)
(* status sends exactly one error notification when it is the first such   *)
(* cycle, and none when the cycle before it failed the same way.           *)
C5_HttpErrorNotifiedOnce ==
    (cur.fetch = "http" /\ (HandlerDone \/ pc = "get_api_answer"))
    => /\ cur.sends # <<>>
       /\ ErrorSends(cur) = (IF prev.fetch = "http" THEN 0 ELSE 1)

(* C6: a failed delivery never terminates the poll loop.                   *)
C6_DeliveryFailureKeepsRunning ==
    pc = "crashed" => raised.kind # "CustomTelegramError"

(* C7: in a cycle in which a call of the notifier fails, no further call   *)
(* of the notifier is made.                                                *)
C7_NoSendAfterFailedSend ==
    \A i \in 1 .. Len(cur.sends) : ~cur.sends[i].ok => i = Len(cur.sends)

(* C8: with any of the three configuration values absent the process      *)
(* fetches nothing, sends nothing, never enters the loop and exits with    *)
(* the non-zero code EX_DATAERR; with all three present it enters the loop.*)
C8_StartupGating ==
    /\ AnyTokenAbsent =>
         /\ pc \in {"main", "exited"}
         /\ fetches = 0 /\ cycle = 0
         /\ cur.sends = <<>> /\ prev.sends = <<>>
         /\ pc = "exited" => (exit_code = EX_DATAERR /\ exit_code # 0)
    /\ (~AnyTokenAbsent /\ pc # "main") =>
         /\ pc # "exited"
         /\ exit_code # EX_DATAERR
         /\ InLoop \/ cycle > 0

C8_Witness ==
    /\ pc = "exited" /\ exit_code = EX_DATAERR
    /\ env["PRACTICUM_TOKEN"] = "secret" /\ env["TELEGRAM_TOKEN"] = "secret"
    /\ env["TELEGRAM_CHAT_ID"] = Unset

(* C9: every poll cycle that is started ends by advancing the cursor and   *)
(* sleeping for the retry interval.                                        *)
C9_EveryCycleAdvancesAndSleeps ==
    /\ (cycle > 0 /\ pc = "crashed") => (cur.advanced /\ cur.slept)
    /\ (cycle > 0 /\ pc = "get_api_answer") => (prev.advanced /\ prev.slept)

(* C10: between two consecutive fetches there is exactly one sleep of      *)
(* RETRY_PERIOD seconds, and no fetch or send happens during the sleep.    *)
C10_OneSleepBetweenFetches ==
    /\ [](/\ pc \in {"try", "except", "finally", "sleep"} => sleeps = fetches - 1
          /\ pc = "get_api_answer" => sleeps = fetches
          /\ pc = "crashed" => sleeps \in {fetches - 1, fetches}
          /\ clock = StartTime + RETRY_PERIOD * sleeps
          /\ (cur.fetch # "none" /\ prev.fetch # "none")
               => cur.fetched_at - prev.fetched_at = RETRY_PERIOD)
    /\ [][pc = "sleep" => (~FetchStep /\ ~SendStep /\ clock' = clock + RETRY_PERIOD)]_vars

C10_Witness ==
    /\ fetches = 2 /\ sleeps = 1 /\ pc = "try"
    /\ cur.fetched_at - prev.fetched_at = RETRY_PERIOD

(* C11: the cursor passed to the API as from_date is an integer in every   *)
(* poll cycle, whatever the responses were.                                *)
C11_CursorIsInteger ==
    cur.fetch # "none" => cur.from_date.t = "int"

(* C12: the cursor never decreases from one poll cycle to the next.        *)
C12_CursorNeverDecreases ==
    (cur.fetch # "none" /\ prev.fetch # "none"
       /\ cur.from_date.t = "int" /\ prev.from_date.t = "int")
    => cur.from_date.v >= prev.from_date.v

(* C13: after a poll whose body carries an integer current_date, the next  *)
(* cycle's cursor is exactly that current_date, whether or not the cycle   *)
(* raised an error.                                                        *)
C13_CursorFollowsServerDate ==
    /\ [](( /\ pc \in {"sleep", "get_api_answer"} /\ cycle > 0
            /\ practicum_resp.current_date.t = "int" )
          => ( /\ timestamp.t = "int"
               /\ timestamp.v = practicum_resp.current_date.v ))
    /\ [][( /\ FetchStep /\ cycle > 0
            /\ practicum_resp.current_date.t = "int" )
          => ( /\ cur'.from_date.t = "int"
               /\ cur'.from_date.v = practicum_resp.current_date.v )]_vars

C13_Witness ==
    /\ cycle = 2 /\ pc = "try"
    /\ prev.from_date = PyInt(1700000000)
    /\ prev.caught # NoError
    /\ cur.from_date = PyInt(1700000100)

(* the decoded body violates the schema: no mapping, no `homeworks`, or    *)
(* `homeworks` is no list                                                  *)
SchemaViolated(response) ==
    \/ response.pytype # "dict"
    \/ response.homeworks.t = Missing
    \/ response.homeworks.t # "list"

AllDelivered(c) == \A i \in 1 .. Len(c.sends) : c.sends[i].ok

(* C14: when the decoded response violates the schema the validator fails  *)
(* with a schema error and the loop catches it: the process does not       *)
(* terminate and goes on to sleep and to the next cycle.                   *)
C14_SchemaViolationIsCaught ==
    (cur.fetch = "ok" /\ SchemaViolated(practicum_resp) /\ AllDelivered(cur))
    => /\ check_response(practicum_resp).raised
       /\ check_response(practicum_resp).kind \in {"TypeError", "PractikumException"}
       /\ ~Terminated

(* C15: for every response that is a mapping whose `homeworks` is a list   *)
(* with at least one element, the validator returns exactly the first      *)
(* element, whatever the other elements and fields are.                    *)
C15_ValidatorReturnsFirst ==
    ( /\ cur.fetch = "ok"
      /\ practicum_resp.pytype = "dict"
      /\ practicum_resp.homeworks.t = "list"
      /\ Len(practicum_resp.homeworks.items) >= 1 )
    => /\ ~check_response(practicum_resp).raised
       /\ check_response(practicum_resp).homework
            = Head(practicum_resp.homeworks.items)

C15_Witness ==
    /\ pc = "finally" /\ cur.fetch = "ok"
    /\ practicum_resp.homeworks.t = "list"
    /\ Len(practicum_resp.homeworks.items) = 2
    /\ practicum_resp.homeworks.items[1] # practicum_resp.homeworks.items[2]
    /\ practicum_resp.current_date.t = Missing
    /\ Len(cur.sends) = 1 /\ cur.sends[1].kind = "status"

Contains(text, piece) == \E i \in 1 .. Len(text) : text[i] = piece

KnownStatus(homework) == homework.status \in {"approved", "reviewing", "rejected"}

(* the records of the current response: the elements that are mappings *)
Records ==
    { practicum_resp.homeworks.items[i] : i \in 1 .. Len(practicum_resp.homeworks.items) }
    \cap { h \in HomeworkValues \cup OlderValues : h.pytype = "dict" }

(* C16: for a record with a verdict status and a name the formatter        *)
(* returns a text containing the name and the status's verdict text; for a *)
(* status outside the verdict set (or none) it fails with the              *)
(* unknown-status error; for a known status without homework_name it fails *)
(* with the missing-field error.                                           *)
C16_FormatterContract ==
    cur.fetch = "ok" =>
      \A h \in Records :
        LET r == parse_status(h)
        IN  /\ (KnownStatus(h) /\ h.homework_name # Missing)
                 => /\ ~r.raised
                    /\ Contains(r.text, h.homework_name)
                    /\ Contains(r.text, HOMEWORK_VERDICTS[h.status])
            /\ ~KnownStatus(h)
                 => /\ r.raised /\ r.kind = "KeyError"
                    /\ r.msg = <<"ru:Neozhidannyy status ",
                                 IF h.status = Missing THEN "None" ELSE h.status>>
            /\ (KnownStatus(h) /\ h.homework_name = Missing)
                 => /\ r.raised /\ r.kind = "KeyError"
                    /\ r.msg[1] = "ru:Ne nashel klyuchik \"homework_name\", tolko vot eto "

C16_Witness ==
    /\ pc = "except" /\ cur.fetch = "ok"
    /\ practicum_resp.homeworks.t = "list"
    /\ Len(practicum_resp.homeworks.items) = 2
    /\ practicum_resp.homeworks.items[1] = Homework("paused", Missing)
    /\ practicum_resp.homeworks.items[2] = Homework("rejected", "proj0")
    /\ error.kind = "KeyError"
    /\ error.msg = <<"ru:Neozhidannyy status ", "paused">>

(* the response of the end-to-end scenario *)
ScenarioResponse ==
    [pytype |-> "dict",
     homeworks |-> [t |-> "list", items |-> << Homework("approved", "proj1") >>],
     current_date |-> PyInt(1700000100)]

ScenarioCycleDone == HandlerDone /\ cur.fetch = "ok" /\ practicum_resp = ScenarioResponse

ErrorDelivered ==
    /\ SendStep
    /\ cur'.sends[Len(cur'.sends)].kind = "error"
    /\ cur'.sends[Len(cur'.sends)].ok

(* C18: after a cycle in which the loop sent an error notification the     *)
(* last-error marker is the error caught in that cycle; when none was sent *)
(* for the caught error the marker is left unchanged.                      *)
C18_MarkerFollowsNotifiedError ==
    /\ []( /\ (HandlerDone /\ ErrorSends(cur) = 1 /\ cur.sends[Len(cur.sends)].ok)
               => (last_error = cur.caught /\ last_error # NoError)
           /\ (pc = "get_api_answer" /\ ErrorSends(prev) = 1)
               => (last_error = prev.caught /\ last_error # NoError) )
    /\ [][pc = "except" =>
            IF ErrorDelivered THEN last_error' = error /\ cur'.caught = error
                              ELSE last_error' = last_error]_vars

C18_Witness ==
    /\ pc = "finally" /\ cycle = 2
    /\ ErrorSends(prev) = 1 /\ ErrorSends(cur) = 1 /\ AllDelivered(cur)
    /\ ~SameError(prev.caught, cur.caught)
    /\ last_error = cur.caught

(* C19: a cycle that raises no error leaves the last-error marker as it    *)
(* is, and the marker is never reset to "no error" once set.               *)
C19_MarkerSurvivesCleanCycles ==
    /\ [][pc # "except" => last_error' = last_error]_vars
    /\ [][last_error # NoError => last_error' # NoError]_vars

C19_Witness ==
    /\ pc = "get_api_answer" /\ cycle = 2
    /\ prev.caught = NoError /\ StatusSends(prev) = 1 /\ AllDelivered(prev)
    /\ last_error # NoError

(* C20: a status-change message is sent only in a cycle whose response     *)
(* passed validation with a non-empty list and whose first record was      *)
(* formatted successfully, and its text is the formatter's result for that *)
(* first record.                                                           *)
C20_StatusSendOnlyAfterFormatting ==
    \A i \in 1 .. Len(cur.sends) :
      cur.sends[i].kind = "status" =>
        /\ i = 1
        /\ cur.fetch = "ok"
        /\ ~SchemaViolated(practicum_resp)
        /\ practicum_resp.homeworks.items # <<>>
        /\ LET h == Head(practicum_resp.homeworks.items)
           IN  /\ h.pytype = "dict"
               /\ KnownStatus(h)
               /\ h.homework_name # Missing
               /\ ~parse_status(h).raised
               /\ cur.sends[i].text = parse_status(h).text

C20_Witness ==
    /\ pc = "finally" /\ StatusSends(cur) = 1
    /\ practicum_resp.homeworks.items
         = << Homework("reviewing", "proj1"), Homework("rejected", "proj0") >>
    /\ Contains(cur.sends[1].text, "ru:Rabota vzyata na proverku revyuerom.")

====
